---- MODULE Spec2Model ----
(***************************************************************************)
(* Batch task-execution harness of lik-lot/exchange-scripts.               *)
(*                                                                         *)
(* Three programs are modelled, selected by the variable prog:             *)
(*   "par1"  src/run_all.go lines 1-179   (parallel, atomic counter,       *)
(*           periodic progress reporter, buffered output, the existence    *)
(*           check done in two passes)                                     *)
(*   "par2"  src/run_all.go lines 181-348 (parallel, streamed output)      *)
(*   "seq"   src/unnamed/part_000         (sequential, streamed output)    *)
(*                                                                         *)
(* A catalog entry is identified by its position in pythonScripts; the     *)
(* display name of an entry is the entry itself.  The file system is an    *)
(* input of the run: exists[e] tells whether os.Stat finds entry e.        *)
(***************************************************************************)
EXTENDS Integers, Sequences, FiniteSets

\* Largest catalog explored.
MaxCat == 2

Progs == {"par1", "par2", "seq"}
Entries == 1..MaxCat

\* err values of exec: nil, *exec.ExitError, a failure to start the child.
NilErr == "nil"
ExitErr == "exit"
LaunchErr == "launch"

VARIABLES
  prog,          \* which program runs
  pythonScripts, \* the catalog
  exists,        \* the file system under scriptDir
  mpc,           \* position of main
  i,             \* index of the loop main is in
  validScripts,  \* par1: the count; par2, seq: the list of existing entries
  launched,      \* entries runPythonScript was invoked for, in order
  wg,            \* sync.WaitGroup counter
  results,       \* the buffered channel's content
  closed,        \* close(results) has happened
  completed,     \* the atomic completion counter (par1)
  upc,           \* position of each runPythonScript invocation
  result,        \* the ScriptResult each invocation built
  completedCount,\* the value each unit got from atomic.AddInt64 (par1)
  rpc,           \* position of the progress reporter goroutine (par1)
  currentCompleted, \* the reporter's last load of the counter
  scriptResults, \* collected outcomes (par2, seq)
  successful,
  failed,
  failedScripts,
  exitStatus,    \* -1 while the process runs
  out            \* lines written to standard output, per writing goroutine

vars == <<prog, pythonScripts, exists, mpc, i, validScripts, launched, wg,
          results, closed, completed, upc, result, completedCount, rpc,
          currentCompleted, scriptResults, successful, failed, failedScripts,
          exitStatus, out>>

mainVars == <<mpc, i, validScripts, launched, closed, scriptResults,
              successful, failed, failedScripts, exitStatus>>
unitVars == <<upc, result, completedCount>>
repVars == <<rpc, currentCompleted>>
inputVars == <<prog, pythonScripts, exists>>

----------------------------------------------------------------------------
\* Helpers

NoResult == [Name |-> 0, Success |-> FALSE, Error |-> "none", Output |-> "none"]

\* MkResult with Success set unconditionally.
MkResultAlwaysOk(name, err, output) ==
  [Name |-> name, Success |-> TRUE, Error |-> err, Output |-> output]

\* The ScriptResult literal of runPythonScript.
MkResult(name, err, output) ==
  [Name |-> name, Success |-> (err = NilErr), Error |-> err, Output |-> output]

\* The goroutines that write to standard output: main, the reporter and one
\* unit per catalog entry.  out[g] is what g has written so far, in order;
\* in the sequential program runPythonScript runs on main.
MainG == 0
ReporterG == MaxCat + 1
Goroutines == 0..(MaxCat + 1)
Writer(u) == IF prog = "seq" THEN MainG ELSE u
Emit(g, lines) == [out EXCEPT ![g] = out[g] \o lines]

\* A line of standard output.
Line(kind, name, a, b) == [kind |-> kind, name |-> name, a |-> a, b |-> b]

\* IsNotExist with the test inverted.
IsNotExistInverted(e) == exists[e]

\* os.Stat(...) ; os.IsNotExist(err)
IsNotExist(e) == ~exists[e]

\* total handed to runPythonScript / used by the reporter
Total == IF prog = "par1" THEN validScripts ELSE Len(validScripts)

\* ChanCap of an unbuffered channel, make(chan ScriptResult).
ChanCapUnbuffered == Cardinality({})

\* ChanCap one slot short.
ChanCapOneShort ==
  IF prog = "par1" THEN Len(pythonScripts) - 1 ELSE Len(validScripts) - 1

\* make(chan ScriptResult, n)
ChanCap == IF prog = "par1" THEN Len(pythonScripts) ELSE Len(validScripts)

\* ExitCode that tolerates one failure.
ExitCodeOffByOne(f) == IF f > 1 THEN 1 ELSE 0

\* the process exit status derived from the failed count
ExitCode(f) == IF f > 0 THEN 1 ELSE 0

\* output captured by CombinedOutput (par1) or streamed (par2, seq)
Captured(o) == IF prog = "par1" THEN o ELSE ""

\* What a child that runs writes (nothing, or something), and the exit codes
\* it ends with.
Outputs == {"", "txt"}
ExitCodes == {0, 1}

----------------------------------------------------------------------------
Init ==
  /\ prog \in Progs
  /\ \E n \in 0..MaxCat :
       /\ pythonScripts = [k \in 1..n |-> k]
       /\ exists \in [1..n -> BOOLEAN]
  /\ mpc = IF prog = "par1" THEN "banner" ELSE "resolve"
  /\ i = 1
  /\ validScripts = IF prog = "par1" THEN 0 ELSE <<>>
  /\ launched = <<>>
  /\ wg = 0
  /\ results = <<>>
  /\ closed = FALSE
  /\ completed = 0
  /\ upc = [u \in Entries |-> "none"]
  /\ result = [u \in Entries |-> NoResult]
  /\ completedCount = [u \in Entries |-> 0]
  /\ rpc = "none"
  /\ currentCompleted = 0
  /\ scriptResults = <<>>
  /\ successful = 0
  /\ failed = 0
  /\ failedScripts = <<>>
  /\ exitStatus = -1
  /\ out = [g \in Goroutines |-> <<>>]

----------------------------------------------------------------------------
\* main: catalog resolution

\* Most progress snapshots the reporter is let to print in one run.
MaxSnap == 1

Running == exitStatus = -1

\* run_all.go:92-97 : the banner is printed with the catalog size.
Par1Banner ==
  /\ Running /\ prog = "par1" /\ mpc = "banner"
  /\ out' = Emit(MainG, <<Line("banner", 0, Len(pythonScripts), 0)>>)
  /\ mpc' = "count"
  /\ i' = 1
  /\ UNCHANGED <<validScripts, launched, closed, scriptResults, successful,
                 failed, failedScripts, exitStatus, wg, results, completed>>
  /\ UNCHANGED <<unitVars, repVars, inputVars>>

\* run_all.go:99-107 : first pass, counts the entries that exist.
Par1Count ==
  /\ Running /\ prog = "par1" /\ mpc = "count"
  /\ IF i <= Len(pythonScripts)
       THEN /\ IF IsNotExist(pythonScripts[i])
                 THEN /\ out' = Emit(MainG, <<Line("skip", pythonScripts[i], 0, 0)>>)
                      /\ UNCHANGED validScripts
                 ELSE /\ validScripts' = validScripts + 1
                      /\ UNCHANGED out
            /\ i' = i + 1
            /\ UNCHANGED mpc
       ELSE /\ mpc' = "launch"
            /\ i' = 1
            /\ UNCHANGED <<validScripts, out>>
  /\ UNCHANGED <<launched, closed, scriptResults, successful, failed,
                 failedScripts, exitStatus, wg, results, completed>>
  /\ UNCHANGED <<unitVars, repVars, inputVars>>

\* run_all.go:111-119 : second pass, one goroutine per entry that exists.
Par1Launch ==
  /\ Running /\ prog = "par1" /\ mpc = "launch"
  /\ IF i <= Len(pythonScripts)
       THEN /\ IF IsNotExist(pythonScripts[i])
                 THEN UNCHANGED <<wg, upc, launched>>
                 ELSE /\ wg' = wg + 1
                      /\ upc' = [upc EXCEPT ![pythonScripts[i]] = "ready"]
                      /\ launched' = Append(launched, pythonScripts[i])
            /\ i' = i + 1
            /\ UNCHANGED mpc
       ELSE /\ mpc' = "goreporter"
            /\ i' = 1
            /\ UNCHANGED <<wg, upc, launched>>
  /\ UNCHANGED <<validScripts, closed, scriptResults, successful, failed,
                 failedScripts, exitStatus, results, completed, out>>
  /\ UNCHANGED <<result, completedCount, repVars, inputVars>>

\* run_all.go:121-134 : the go statement of the progress reporter.
Par1GoReporter ==
  /\ Running /\ prog = "par1" /\ mpc = "goreporter"
  /\ rpc' = "idle"
  /\ mpc' = "wait"
  /\ UNCHANGED <<i, validScripts, launched, closed, scriptResults, successful,
                 failed, failedScripts, exitStatus, wg, results, completed, out>>
  /\ UNCHANGED <<unitVars, currentCompleted, inputVars>>

\* run_all.go:276-287, part_000:93-104 : the single resolution pass, then
\* the banner with the number of resolved entries.
Resolve ==
  /\ Running /\ prog \in {"par2", "seq"} /\ mpc = "resolve"
  /\ IF i <= Len(pythonScripts)
       THEN /\ IF IsNotExist(pythonScripts[i])
                 THEN /\ out' = Emit(MainG, <<Line("skip", pythonScripts[i], 0, 0)>>)
                      /\ UNCHANGED validScripts
                 ELSE /\ validScripts' = Append(validScripts, pythonScripts[i])
                      /\ UNCHANGED out
            /\ i' = i + 1
            /\ UNCHANGED mpc
       ELSE /\ out' = Emit(MainG, <<Line("banner", 0, Len(validScripts), 0)>>)
            /\ mpc' = IF prog = "par2" THEN "launch" ELSE "loop"
            /\ i' = 1
            /\ UNCHANGED validScripts
  /\ UNCHANGED <<launched, closed, scriptResults, successful, failed,
                 failedScripts, exitStatus, wg, results, completed>>
  /\ UNCHANGED <<unitVars, repVars, inputVars>>

\* run_all.go:294-298 : one goroutine per resolved entry.
Par2Launch ==
  /\ Running /\ prog = "par2" /\ mpc = "launch"
  /\ IF i <= Len(validScripts)
       THEN /\ wg' = wg + 1
            /\ upc' = [upc EXCEPT ![validScripts[i]] = "ready"]
            /\ launched' = Append(launched, validScripts[i])
            /\ i' = i + 1
            /\ UNCHANGED mpc
       ELSE /\ mpc' = "wait"
            /\ i' = 1
            /\ UNCHANGED <<wg, upc, launched>>
  /\ UNCHANGED <<validScripts, closed, scriptResults, successful, failed,
                 failedScripts, exitStatus, results, completed, out>>
  /\ UNCHANGED <<result, completedCount, repVars, inputVars>>

----------------------------------------------------------------------------
\* runPythonScript

\* StartLine showing the 0-based loop index.
StartLineZeroBased(u) ==
  IF prog = "seq" THEN Line("start", u, i - 1, Len(validScripts))
                  ELSE Line("start", u, 0, 0)

\* run_all.go:29, 208-210, part_000:25-28 : the start line.
StartLine(u) ==
  IF prog = "seq" THEN Line("start", u, i, Len(validScripts))
                  ELSE Line("start", u, 0, 0)

\* UnitLaunch behind a semaphore of one slot.
UnitLaunchCapped(u) ==
  /\ Running /\ upc[u] = "ready"
  /\ \A v \in Entries : upc[v] # "running"
  /\ out' = Emit(Writer(u), <<StartLine(u)>>)
  /\ upc' = [upc EXCEPT ![u] = "running"]
  /\ UNCHANGED <<mainVars, wg, results, completed, result, completedCount>>
  /\ UNCHANGED <<repVars, inputVars>>

\* run_all.go:25-34, 204-219, part_000:21-36 : the start line is printed and
\* the child process is started; it is in flight from here on.
UnitLaunch(u) ==
  /\ Running /\ upc[u] = "ready"
  /\ out' = Emit(Writer(u), <<StartLine(u)>>)
  /\ upc' = [upc EXCEPT ![u] = "running"]
  /\ UNCHANGED <<mainVars, wg, results, completed, result, completedCount>>
  /\ UNCHANGED <<repVars, inputVars>>

\* The same lines when the child cannot be started (python3 missing,
\* permission denied): err is returned at once, no child is ever in flight,
\* nothing is captured, and the ScriptResult is built (run_all.go:34-43).
UnitLaunchFail(u) ==
  /\ Running /\ upc[u] = "ready"
  /\ out' = Emit(Writer(u), <<StartLine(u)>>)
  /\ result' = [result EXCEPT ![u] = MkResult(u, LaunchErr, "")]
  /\ upc' = [upc EXCEPT ![u] = "built"]
  /\ UNCHANGED <<mainVars, wg, results, completed, completedCount>>
  /\ UNCHANGED <<repVars, inputVars>>

\* The child terminates with exit code c and output o; the ScriptResult is
\* built (run_all.go:34-43, 219-228, part_000:36-45).
ChildExit(u) ==
  /\ Running /\ upc[u] = "running"
  /\ \E c \in ExitCodes, o \in Outputs :
       result' = [result EXCEPT ![u] =
                    MkResult(u, IF c = 0 THEN NilErr ELSE ExitErr, Captured(o))]
  /\ upc' = [upc EXCEPT ![u] = "built"]
  /\ UNCHANGED <<mainVars, wg, results, completed, completedCount, out>>
  /\ UNCHANGED <<repVars, inputVars>>

\* UnitCount done with a plain completed++ : an update can be lost.
UnitCountLost(u) ==
  /\ Running /\ prog = "par1" /\ upc[u] = "built"
  /\ \E v \in {completed, completed + 1} :
       /\ completed' = v
       /\ completedCount' = [completedCount EXCEPT ![u] = v]
  /\ upc' = [upc EXCEPT ![u] = "counted"]
  /\ UNCHANGED <<mainVars, wg, results, result, out>>
  /\ UNCHANGED <<repVars, inputVars>>

\* UnitCount that keeps the value the counter had before the addition.
UnitCountOldValue(u) ==
  /\ Running /\ prog = "par1" /\ upc[u] = "built"
  /\ completed' = completed + 1
  /\ completedCount' = [completedCount EXCEPT ![u] = completed]
  /\ upc' = [upc EXCEPT ![u] = "counted"]
  /\ UNCHANGED <<mainVars, wg, results, result, out>>
  /\ UNCHANGED <<repVars, inputVars>>

\* run_all.go:45 : atomic.AddInt64(completed, 1)
UnitCount(u) ==
  /\ Running /\ prog = "par1" /\ upc[u] = "built"
  /\ completed' = completed + 1
  /\ completedCount' = [completedCount EXCEPT ![u] = completed + 1]
  /\ upc' = [upc EXCEPT ![u] = "counted"]
  /\ UNCHANGED <<mainVars, wg, results, result, out>>
  /\ UNCHANGED <<repVars, inputVars>>

\* UnitLog that ends the process on a failure, as log.Fatalf would.
UnitLogFatal(u) ==
  /\ Running
  /\ upc[u] = IF prog = "par1" THEN "counted" ELSE "built"
  /\ out' = Emit(Writer(u), <<Line(IF result[u].Error = NilErr THEN "ok" ELSE "fail",
                                   u, 0, 0)>>)
  /\ upc' = [upc EXCEPT ![u] = "logged"]
  /\ exitStatus' = IF result[u].Error = NilErr THEN exitStatus ELSE 1
  /\ UNCHANGED <<mpc, i, validScripts, launched, closed, scriptResults,
                 successful, failed, failedScripts>>
  /\ UNCHANGED <<wg, results, completed, result, completedCount>>
  /\ UNCHANGED <<repVars, inputVars>>

\* run_all.go:48-52, 230-235, part_000:47-52 : the completion line.
UnitLog(u) ==
  /\ Running
  /\ upc[u] = IF prog = "par1" THEN "counted" ELSE "built"
  /\ LET kind == IF result[u].Error = NilErr THEN "ok" ELSE "fail"
     IN out' = Emit(Writer(u),
                 <<CASE prog = "par1" -> Line(kind, u, completedCount[u], validScripts)
                     [] prog = "par2" -> Line(kind, u, 0, 0)
                     [] prog = "seq"  -> Line(kind, u, i, Len(validScripts))>>)
  /\ upc' = [upc EXCEPT ![u] = "logged"]
  /\ UNCHANGED <<mainVars, wg, results, completed, result, completedCount>>
  /\ UNCHANGED <<repVars, inputVars>>

\* run_all.go:54, 237 : results <- result ; blocks while the buffer is full.
UnitSend(u) ==
  /\ Running /\ prog \in {"par1", "par2"} /\ upc[u] = "logged"
  /\ IF closed
       THEN \* a send on a closed channel panics: the process dies
            /\ exitStatus' = 2
            /\ UNCHANGED <<results, upc>>
       ELSE /\ Len(results) < ChanCap
            /\ results' = Append(results, result[u])
            /\ upc' = [upc EXCEPT ![u] = "sent"]
            /\ UNCHANGED exitStatus
  /\ UNCHANGED <<mpc, i, validScripts, launched, closed, scriptResults,
                 successful, failed, failedScripts>>
  /\ UNCHANGED <<wg, completed, result, completedCount, out>>
  /\ UNCHANGED <<repVars, inputVars>>

\* run_all.go:23, 202 : the deferred wg.Done()
UnitDone(u) ==
  /\ Running /\ prog \in {"par1", "par2"} /\ upc[u] = "sent"
  /\ wg' = wg - 1
  /\ upc' = [upc EXCEPT ![u] = "done"]
  /\ UNCHANGED <<mainVars, results, completed, result, completedCount, out>>
  /\ UNCHANGED <<repVars, inputVars>>

----------------------------------------------------------------------------
\* main: the sequential loop of part_000

\* SeqCall that starts the task and goes on to the next without waiting.
SeqCallNoWait ==
  /\ Running /\ prog = "seq" /\ mpc = "loop"
  /\ IF i <= Len(validScripts)
       THEN /\ upc' = [upc EXCEPT ![validScripts[i]] = "ready"]
            /\ launched' = Append(launched, validScripts[i])
            /\ i' = i + 1
            /\ UNCHANGED <<mpc, out>>
       ELSE /\ out' = Emit(MainG, <<Line("summary", 0, 0, 0)>>)
            /\ mpc' = "aggregate"
            /\ i' = 1
            /\ UNCHANGED <<upc, launched>>
  /\ UNCHANGED <<validScripts, closed, scriptResults, successful, failed,
                 failedScripts, exitStatus, wg, results, completed>>
  /\ UNCHANGED <<result, completedCount, repVars, inputVars>>

\* part_000:109-111 : the call of runPythonScript(scriptPath, i+1, len).
SeqCall ==
  /\ Running /\ prog = "seq" /\ mpc = "loop"
  /\ IF i <= Len(validScripts)
       THEN /\ upc' = [upc EXCEPT ![validScripts[i]] = "ready"]
            /\ launched' = Append(launched, validScripts[i])
            /\ mpc' = "call"
            /\ UNCHANGED <<i, out>>
       ELSE \* part_000:119-123 : the loop is over, the summary header
            /\ out' = Emit(MainG, <<Line("summary", 0, 0, 0)>>)
            /\ mpc' = "aggregate"
            /\ i' = 1
            /\ UNCHANGED <<upc, launched>>
  /\ UNCHANGED <<validScripts, closed, scriptResults, successful, failed,
                 failedScripts, exitStatus, wg, results, completed>>
  /\ UNCHANGED <<result, completedCount, repVars, inputVars>>

\* SeqReturn that puts the result in front of the list.
SeqReturnPrepend ==
  /\ Running /\ prog = "seq" /\ mpc = "call"
  /\ upc[validScripts[i]] = "logged"
  /\ scriptResults' = <<result[validScripts[i]]>> \o scriptResults
  /\ out' = IF i < Len(validScripts)
              THEN Emit(MainG, <<Line("blank", 0, 0, 0)>>) ELSE out
  /\ upc' = [upc EXCEPT ![validScripts[i]] = "done"]
  /\ i' = i + 1
  /\ mpc' = "loop"
  /\ UNCHANGED <<validScripts, launched, closed, successful, failed,
                 failedScripts, exitStatus, wg, results, completed>>
  /\ UNCHANGED <<result, completedCount, repVars, inputVars>>

\* part_000:54, 111-117 : the call returns, the result is appended.
SeqReturn ==
  /\ Running /\ prog = "seq" /\ mpc = "call"
  /\ upc[validScripts[i]] = "logged"
  /\ scriptResults' = Append(scriptResults, result[validScripts[i]])
  /\ out' = IF i < Len(validScripts)
              THEN Emit(MainG, <<Line("blank", 0, 0, 0)>>) ELSE out
  /\ upc' = [upc EXCEPT ![validScripts[i]] = "done"]
  /\ i' = i + 1
  /\ mpc' = "loop"
  /\ UNCHANGED <<validScripts, launched, closed, successful, failed,
                 failedScripts, exitStatus, wg, results, completed>>
  /\ UNCHANGED <<result, completedCount, repVars, inputVars>>

----------------------------------------------------------------------------
\* main: barrier, close, aggregation

\* MainWait that returns while one unit is still outstanding.
MainWaitOffByOne ==
  /\ Running /\ prog \in {"par1", "par2"} /\ mpc = "wait"
  /\ wg <= 1
  /\ mpc' = "close"
  /\ UNCHANGED <<i, validScripts, launched, closed, scriptResults, successful,
                 failed, failedScripts, exitStatus, wg, results, completed, out>>
  /\ UNCHANGED <<unitVars, repVars, inputVars>>

\* MainWait that gives up after a deadline, whatever the counter.
MainWaitTimeout ==
  /\ Running /\ prog \in {"par1", "par2"} /\ mpc = "wait"
  /\ mpc' = "close"
  /\ UNCHANGED <<i, validScripts, launched, closed, scriptResults, successful,
                 failed, failedScripts, exitStatus, wg, results, completed, out>>
  /\ UNCHANGED <<unitVars, repVars, inputVars>>

\* run_all.go:136, 300 : wg.Wait() returns when the counter is zero.
MainWait ==
  /\ Running /\ prog \in {"par1", "par2"} /\ mpc = "wait"
  /\ wg = 0
  /\ mpc' = "close"
  /\ UNCHANGED <<i, validScripts, launched, closed, scriptResults, successful,
                 failed, failedScripts, exitStatus, wg, results, completed, out>>
  /\ UNCHANGED <<unitVars, repVars, inputVars>>

\* MainClose placed before wg.Wait().
MainCloseBeforeWait ==
  /\ Running /\ prog \in {"par1", "par2"} /\ mpc \in {"wait", "close"}
  /\ closed' = TRUE
  /\ mpc' = IF prog = "par1" THEN "aggregate" ELSE "collect"
  /\ out' = IF prog = "par1" THEN Emit(MainG, <<Line("summary", 0, 0, 0)>>) ELSE out
  /\ UNCHANGED <<i, validScripts, launched, scriptResults, successful,
                 failed, failedScripts, exitStatus, wg, results, completed>>
  /\ UNCHANGED <<unitVars, repVars, inputVars>>

\* run_all.go:137-143, 301 : close(results); par1 prints the summary header.
MainClose ==
  /\ Running /\ prog \in {"par1", "par2"} /\ mpc = "close"
  /\ closed' = TRUE
  /\ mpc' = IF prog = "par1" THEN "aggregate" ELSE "collect"
  /\ out' = IF prog = "par1" THEN Emit(MainG, <<Line("summary", 0, 0, 0)>>) ELSE out
  /\ UNCHANGED <<i, validScripts, launched, scriptResults, successful,
                 failed, failedScripts, exitStatus, wg, results, completed>>
  /\ UNCHANGED <<unitVars, repVars, inputVars>>

\* run_all.go:304-313 : for result := range results { append }, then the
\* summary header.
Par2Collect ==
  /\ Running /\ prog = "par2" /\ mpc = "collect"
  /\ IF Len(results) > 0
       THEN /\ scriptResults' = Append(scriptResults, Head(results))
            /\ results' = Tail(results)
            /\ UNCHANGED <<mpc, i, out>>
       ELSE /\ closed
            /\ out' = Emit(MainG, <<Line("summary", 0, 0, 0)>>)
            /\ mpc' = "aggregate"
            /\ i' = 1
            /\ UNCHANGED <<scriptResults, results>>
  /\ UNCHANGED <<validScripts, launched, closed, successful, failed,
                 failedScripts, exitStatus, wg, completed>>
  /\ UNCHANGED <<unitVars, repVars, inputVars>>

\* Tally that forgets failed++.
TallyNoFailedCount(r) ==
  /\ IF r.Success
       THEN /\ out' = Emit(MainG, <<Line("sum-ok", r.Name, 0, 0)>>)
            /\ successful' = successful + 1
            /\ UNCHANGED <<failed, failedScripts>>
       ELSE /\ out' = Emit(MainG, <<Line("sum-err", r.Name, 0, 0)>>)
            /\ failedScripts' = Append(failedScripts, r)
            /\ UNCHANGED <<successful, failed>>

\* Tally that puts a failed outcome in front of the list.
TallyPrepend(r) ==
  /\ IF r.Success
       THEN /\ out' = Emit(MainG, <<Line("sum-ok", r.Name, 0, 0)>>)
            /\ successful' = successful + 1
            /\ UNCHANGED <<failed, failedScripts>>
       ELSE /\ out' = Emit(MainG, <<Line("sum-err", r.Name, 0, 0)>>)
            /\ failedScripts' = <<r>> \o failedScripts
            /\ failed' = failed + 1
            /\ UNCHANGED successful

\* run_all.go:151-158, 320-327, part_000:130-137 : one outcome is counted.
Tally(r) ==
  /\ IF r.Success
       THEN /\ out' = Emit(MainG, <<Line("sum-ok", r.Name, 0, 0)>>)
            /\ successful' = successful + 1
            /\ UNCHANGED <<failed, failedScripts>>
       ELSE /\ out' = Emit(MainG, <<Line("sum-err", r.Name, 0, 0)>>)
            /\ failedScripts' = Append(failedScripts, r)
            /\ failed' = failed + 1
            /\ UNCHANGED successful

\* run_all.go:150-159 : for result := range results
Par1Aggregate ==
  /\ Running /\ prog = "par1" /\ mpc = "aggregate"
  /\ IF Len(results) > 0
       THEN /\ Tally(Head(results))
            /\ results' = Tail(results)
            /\ UNCHANGED mpc
       ELSE /\ closed
            /\ mpc' = "report"
            /\ UNCHANGED <<results, out, successful, failed, failedScripts>>
  /\ UNCHANGED <<i, validScripts, launched, closed, scriptResults,
                 exitStatus, wg, completed>>
  /\ UNCHANGED <<unitVars, repVars, inputVars>>

\* run_all.go:319-328, part_000:129-138 : for _, result := range scriptResults
ListAggregate ==
  /\ Running /\ prog \in {"par2", "seq"} /\ mpc = "aggregate"
  /\ IF i <= Len(scriptResults)
       THEN /\ Tally(scriptResults[i])
            /\ i' = i + 1
            /\ UNCHANGED mpc
       ELSE /\ mpc' = "report"
            /\ UNCHANGED <<i, out, successful, failed, failedScripts>>
  /\ UNCHANGED <<validScripts, launched, closed, scriptResults,
                 exitStatus, wg, results, completed>>
  /\ UNCHANGED <<unitVars, repVars, inputVars>>

\* Details that leaves out the first failed outcome.
DetailsSkipFirst(fs) ==
  [k \in 1..(Len(fs) - 1) |->
     Line("detail", fs[k + 1].Name, fs[k + 1].Error,
          IF Len(fs[k + 1].Output) > 0 THEN 1 ELSE 0)]

\* The failure-detail section: one block per failed outcome.
Details(fs) ==
  [k \in 1..Len(fs) |->
     Line("detail", fs[k].Name, fs[k].Error, IF Len(fs[k].Output) > 0 THEN 1 ELSE 0)]

\* run_all.go:161-179, 330-348, part_000:140-158 : the totals, the failure
\* details and the exit status.
Report ==
  /\ Running /\ mpc = "report"
  /\ out' = Emit(MainG, <<Line("results", 0, successful, failed)>> \o Details(failedScripts))
  /\ exitStatus' = ExitCode(failed)
  /\ mpc' = "done"
  /\ UNCHANGED <<i, validScripts, launched, closed, scriptResults, successful,
                 failed, failedScripts, wg, results, completed>>
  /\ UNCHANGED <<unitVars, repVars, inputVars>>

----------------------------------------------------------------------------
\* The progress reporter goroutine (run_all.go:121-134)

NumSnap == Len(out[ReporterG])

\* ReporterTick that writes the counter it should only read.
ReporterTickWrites ==
  /\ Running /\ rpc = "idle"
  /\ currentCompleted' = completed
  /\ completed' = completed + 1
  /\ rpc' = "loaded"
  /\ UNCHANGED <<mainVars, unitVars, inputVars, wg, results, out>>

\* run_all.go:124-125 : a tick arrives, the counter is loaded.  Every tick
\* is taken.
ReporterTick ==
  /\ Running /\ rpc = "idle"
  /\ currentCompleted' = completed
  /\ rpc' = "loaded"
  /\ UNCHANGED <<mainVars, unitVars, inputVars, wg, results, completed, out>>

\* run_all.go:126-129 : the snapshot is printed.  Only the Printf is
\* bounded: the runs left out are those that print more than MaxSnap
\* snapshots.
ReporterSnapshot ==
  /\ Running /\ rpc = "loaded"
  /\ currentCompleted < validScripts
  /\ NumSnap < MaxSnap
  /\ out' = Emit(ReporterG, <<Line("snapshot", 0, currentCompleted, validScripts)>>)
  /\ rpc' = "idle"
  /\ UNCHANGED <<mainVars, unitVars, inputVars, wg, results, completed,
                 currentCompleted>>

\* run_all.go:130-132 : break
ReporterBreak ==
  /\ Running /\ rpc = "loaded"
  /\ ~(currentCompleted < validScripts)
  /\ rpc' = "stopped"
  /\ UNCHANGED <<mainVars, unitVars, inputVars, wg, results, completed,
                 currentCompleted, out>>

----------------------------------------------------------------------------
Main ==
  \/ Par1Banner \/ Par1Count \/ Par1Launch \/ Par1GoReporter
  \/ Resolve \/ Par2Launch
  \/ SeqCall \/ SeqReturn
  \/ MainWait \/ MainClose \/ Par2Collect \/ Par1Aggregate \/ ListAggregate
  \/ Report

Unit(u) ==
  \/ UnitLaunch(u) \/ UnitLaunchFail(u) \/ ChildExit(u)
  \/ UnitCount(u) \/ UnitLog(u) \/ UnitSend(u) \/ UnitDone(u)

Reporter == ReporterTick \/ ReporterSnapshot \/ ReporterBreak

Next == Main \/ (\E u \in Entries : Unit(u)) \/ Reporter

Spec == Init /\ [][Next]_vars

----------------------------------------------------------------------------
\* Vocabulary of the properties

Range(q) == {q[k] : k \in DOMAIN q}
Exists(e) == exists[e]
Missing(e) == ~exists[e]

\* The catalog entries whose path exists, in catalog order.
Resolved == SelectSeq(pythonScripts, Exists)

IsSumLine(l) == l.kind \in {"sum-ok", "sum-err"}
IsTaskLine(l) == l.kind \in {"start", "ok", "fail"}
IsSkipLine(l) == l.kind = "skip"

\* The per-task lines of the summary, one per outcome the aggregator handled.
SumLines == SelectSeq(out[MainG], IsSumLine)

Parallel == prog \in {"par1", "par2"}
AtSummary == mpc \in {"report", "done"}
Aggregating == mpc \in {"collect", "aggregate", "report", "done"}
BarrierReturned == Parallel /\ mpc \in {"close", "collect", "aggregate", "report", "done"}
Failed(u) == result[u] # NoResult /\ ~result[u].Success

----------------------------------------------------------------------------
\* C1: whatever the policy and the number N of submitted tasks, the
\* aggregator handles exactly N outcomes, one per submitted task: at the
\* summary successful + failed = N, every submitted task has exactly one
\* summary line, and no task is ever submitted or summarised twice.
C1_OneOutcomePerTask ==
  /\ \A j, k \in DOMAIN launched : launched[j] = launched[k] => j = k
  /\ \A j, k \in DOMAIN SumLines : SumLines[j].name = SumLines[k].name => j = k
  /\ \A k \in DOMAIN SumLines : SumLines[k].name \in Range(launched)
  /\ AtSummary =>
       /\ successful + failed = Len(launched)
       /\ Len(SumLines) = Len(launched)
       /\ \A u \in Range(launched) : \E k \in DOMAIN SumLines : SumLines[k].name = u

C1_Witness ==
  /\ prog = "par1" /\ mpc = "done"
  /\ Len(launched) = 2 /\ successful = 1 /\ failed = 1

\* C2: when the run ends the exit status is 1 iff some outcome has
\* Success = FALSE and 0 iff all outcomes succeeded (also with no task).
C2_ExitStatusLaw ==
  mpc = "done" =>
    /\ exitStatus \in {0, 1}
    /\ (exitStatus = 1) <=> (\E u \in Range(launched) : ~result[u].Success)
    /\ (exitStatus = 0) <=> (\A u \in Range(launched) : result[u].Success)

C2_Witness ==
  /\ prog = "par2" /\ mpc = "done"
  /\ exitStatus = 1 /\ successful >= 1

\* C3: in the parallel programs, when wg.Wait has returned (close not yet
\* executed) the channel holds exactly one outcome per launched unit, and
\* from then on no unit publishes an outcome.
C3_AtBarrier ==
  (Parallel /\ mpc = "close") =>
    /\ Len(results) = Len(launched)
    /\ \A u \in Range(launched) :
         Cardinality({k \in DOMAIN results : results[k] = result[u]}) = 1

C3_NoSendAfter ==
  BarrierReturned =>
    /\ Len(results') <= Len(results)
    /\ \A u \in Entries : upc'[u] = "sent" => upc[u] = "sent"

C3_ParallelCompleteness == []C3_AtBarrier /\ [][C3_NoSendAfter]_vars

C3_Witness ==
  /\ prog = "par1" /\ mpc = "close"
  /\ Len(launched) = 2 /\ Len(results) = 2

\* C4: in the sequential program start line, completion line and outcome of
\* the tasks follow catalog order: the task lines on standard output are
\* start(t1), end(t1), start(t2), end(t2), ..., the outcome of a task is in
\* the list before the next task starts, and the collected list matches the
\* resolved list position by position.
C4_SequentialOrder ==
  prog = "seq" =>
    LET ev == SelectSeq(out[MainG], IsTaskLine)
    IN /\ Len(ev) <= 2 * Len(validScripts)
       /\ \A k \in DOMAIN ev :
            /\ ev[k].name = validScripts[(k + 1) \div 2]
            /\ (k % 2 = 1) => ev[k].kind = "start"
            /\ (k % 2 = 0) => ev[k].kind \in {"ok", "fail"}
       /\ Len(scriptResults) <= Len(validScripts)
       /\ \A k \in DOMAIN scriptResults :
            scriptResults[k] = result[validScripts[k]]
       /\ 2 * Len(scriptResults) <= Len(ev)
       /\ Len(ev) <= 2 * Len(scriptResults) + 2
       /\ (mpc = "loop") => Len(ev) = 2 * Len(scriptResults)
       /\ Aggregating => Len(scriptResults) = Len(validScripts)

C4_Witness ==
  /\ prog = "seq" /\ mpc = "done"
  /\ Len(scriptResults) = 2
  /\ ~scriptResults[1].Success

\* C5: a failed task interrupts nothing: the process ends only through the
\* summary (never inside a unit), while it runs some step is always possible
\* and every unit that has work left can take its next step, and once
\* aggregation is reached every resolved task was launched and has its
\* outcome, whichever tasks failed.
C5_FailureIsolation ==
  /\ exitStatus # -1 => (mpc = "done" /\ exitStatus \in {0, 1})
  /\ Running => ENABLED Next
  /\ \A u \in Entries :
       (Running /\ upc[u] \in {"ready", "running", "built", "counted", "logged", "sent"}
          /\ ~(prog = "seq" /\ upc[u] = "logged"))
         => ENABLED Unit(u)
  /\ (Aggregating /\ mpc # "collect") =>
       \A e \in Range(Resolved) :
         e \in Range(launched) /\ upc[e] = "done" /\ result[e] # NoResult

C5_Witness ==
  /\ prog = "seq" /\ mpc = "loop" /\ i = 2
  /\ Len(validScripts) = 2
  /\ Failed(validScripts[1])
  /\ upc[validScripts[2]] = "none"

\* C6: the tasks that are run are the catalog entries whose path exists, in
\* catalog order; the missing ones get a warning each and are not counted in
\* the total handed to the units, also with the two passes of "par1".
C6_Resolution ==
  LET resolved == IF prog = "par1" THEN mpc \notin {"banner", "count"}
                                    ELSE mpc # "resolve"
      launchedAll == IF prog = "seq" THEN Aggregating
                     ELSE mpc \notin {"banner", "count", "resolve", "launch"}
  IN /\ Len(launched) <= Len(Resolved)
     /\ \A k \in DOMAIN launched : launched[k] = Resolved[k]
     /\ launchedAll => launched = Resolved
     /\ resolved =>
          /\ Total = Len(Resolved)
          /\ prog # "par1" => validScripts = Resolved
          /\ LET skips == SelectSeq(out[MainG], IsSkipLine)
                 missing == SelectSeq(pythonScripts, Missing)
             IN /\ Len(skips) = Len(missing)
                /\ \A k \in DOMAIN skips : skips[k].name = missing[k]

C6_Witness ==
  /\ prog = "par1" /\ mpc = "wait"
  /\ Len(pythonScripts) = 2 /\ ~exists[1] /\ exists[2]
  /\ launched = <<2>> /\ validScripts = 1

\* C7: every outcome, wherever it is held, has Success = (Error is nil) and
\* is the value its unit built; a built outcome never changes.
Held ==
  {result[u] : u \in {v \in Entries : result[v] # NoResult}}
    \cup Range(results) \cup Range(scriptResults) \cup Range(failedScripts)

C7_Classified ==
  \A o \in Held : o.Success = (o.Error = NilErr) /\ o = result[o.Name]

C7_Immutable ==
  \A u \in Entries : result[u] # NoResult => result'[u] = result[u]

C7_OutcomeClassification == []C7_Classified /\ [][C7_Immutable]_vars

C7_Witness ==
  /\ prog = "par2" /\ mpc = "done"
  /\ Len(failedScripts) = 1 /\ failedScripts[1].Error = LaunchErr
  /\ successful = 1

\* C8: in "par1" the reporter prints no progress snapshot once wg.Wait has
\* returned, in any interleaving.
C8_NoSnapshotAfterBarrier ==
  [][Len(out'[ReporterG]) > Len(out[ReporterG]) => ~BarrierReturned]_vars

\* C9: the reporter only observes.  A step of the reporter leaves the
\* counter, the channel, the wait group, main and every unit as they were
\* and changes nothing about which step main or a unit can take next; and
\* wg.Wait returns as soon as the wait group is at zero, wherever the
\* reporter is.
ReporterStep ==
  /\ rpc # "none"
  /\ \/ rpc' # rpc
     \/ currentCompleted' # currentCompleted
     \/ out'[ReporterG] # out[ReporterG]

C9_Frame ==
  ReporterStep =>
    /\ UNCHANGED <<completed, results, closed, wg, mainVars, unitVars, inputVars>>
    /\ \A g \in Goroutines \ {ReporterG} : out'[g] = out[g]
    /\ (ENABLED Main)' <=> ENABLED Main
    /\ \A u \in Entries : (ENABLED Unit(u))' <=> ENABLED Unit(u)

C9_BarrierFree ==
  (Running /\ Parallel /\ mpc = "wait" /\ wg = 0) => ENABLED MainWait

C9_PureObserver == [][C9_Frame]_vars /\ []C9_BarrierFree

C9_Witness ==
  /\ prog = "par1" /\ mpc = "close"
  /\ Len(launched) = 2
  /\ rpc = "idle" /\ NumSnap = 1

----------------------------------------------------------------------------
\* Scheduling: the Go runtime runs every runnable goroutine eventually, and
\* every child process is assumed to terminate.  Nothing is assumed about
\* the ticker.
FairSpec ==
  /\ Spec
  /\ WF_vars(Main)
  /\ \A u \in Entries : WF_vars(Unit(u))

\* C10: under fair scheduling, with children that terminate, every submitted
\* task gets its outcome, the run reaches the summary and ends with an exit
\* status; aggregation never starts before every outcome has arrived.
AllArrived ==
  \A e \in Range(Resolved) : upc[e] = "done" /\ result[e] # NoResult

C10_Completes ==
  /\ <>(mpc = "done" /\ exitStatus \in {0, 1})
  /\ \A e \in Entries : (upc[e] = "ready") ~> (result[e] # NoResult)
  /\ [](Aggregating => AllArrived)

C10_Witness ==
  /\ prog = "seq" /\ mpc = "done" /\ exitStatus = 0
  /\ Len(launched) = 2

----------------------------------------------------------------------------
\* Outcomes that have left their executor: sent on the channel or returned
\* to main, and whatever main has moved on from there.
HandedOver == Range(results) \cup Range(scriptResults) \cup Range(failedScripts)

IsFailLineOf(u, l) == l.kind = "fail" /\ l.name = u
IsDetailLine(l) == l.kind = "detail"
DetailLines == SelectSeq(out[MainG], IsDetailLine)

\* C11: every failed outcome is reported twice.  Its executor has written
\* exactly one failure line by the time the outcome is handed over (and none
\* for an outcome that succeeded), and when the run ends the failure-detail
\* section holds one block for each outcome with Success = FALSE, with its
\* error and, when output was captured and is not empty, its output, and no
\* block for a successful one; no block is written earlier.
C11_FailureReportedTwice ==
  /\ \A o \in HandedOver :
       LET w == out[Writer(o.Name)]
           n == Cardinality({k \in DOMAIN w : IsFailLineOf(o.Name, w[k])})
       IN n = IF o.Success THEN 0 ELSE 1
  /\ mpc # "done" => DetailLines = <<>>
  /\ mpc = "done" =>
       /\ Len(DetailLines) = Cardinality({u \in Range(launched) : Failed(u)})
       /\ \A j, k \in DOMAIN DetailLines :
            DetailLines[j].name = DetailLines[k].name => j = k
       /\ \A u \in Range(launched) :
            Failed(u) <=> \E k \in DOMAIN DetailLines :
                            /\ DetailLines[k].name = u
                            /\ DetailLines[k].a = result[u].Error
                            /\ DetailLines[k].b =
                                 IF prog = "par1" /\ result[u].Output # "" THEN 1 ELSE 0

C11_Witness ==
  /\ prog = "par1" /\ mpc = "done"
  /\ successful = 1 /\ failed = 1
  /\ Len(DetailLines) = 1 /\ DetailLines[1].a = ExitErr /\ DetailLines[1].b = 1

\* C12: the channel is sized so that no producer blocks.  The channel never
\* holds more than its capacity (the catalog size in "par1", the number of
\* resolved entries in "par2"); main receives nothing before the barrier, so
\* until then the channel holds the outcome of every unit that has sent; and
\* a unit that has reached its send finds a free slot in an open channel.
C12_NoProducerBlocks ==
  Parallel =>
    /\ Len(results) <= ChanCap
    /\ prog = "par1" => ChanCap = Len(pythonScripts)
    /\ (prog = "par2" /\ mpc # "resolve") => ChanCap = Len(Resolved)
    /\ ~BarrierReturned =>
         Len(results) = Cardinality({u \in Entries : upc[u] \in {"sent", "done"}})
    /\ \A u \in Entries :
         (Running /\ upc[u] = "logged") =>
           /\ Len(results) < ChanCap
           /\ ~closed
           /\ ENABLED UnitSend(u)

C12_Witness ==
  /\ prog = "par2" /\ mpc = "wait"
  /\ ChanCap = 2 /\ Len(results) = 2
  /\ wg = 1

\* C13: in "par1" the counter counts the units that have passed their
\* atomic increment, each once and only with its outcome built: it equals
\* the number of such units, never exceeds the total and equals the total
\* once the barrier has returned; a step raises it by at most one, exactly
\* when one unit goes from "outcome built" to "counted", and never lowers it.
PastCount(u) == upc[u] \in {"counted", "logged", "sent", "done"}

C13_CounterValue ==
  /\ prog # "par1" => completed = 0
  /\ prog = "par1" =>
       /\ completed = Cardinality({u \in Entries : PastCount(u)})
       /\ completed <= Total
       /\ \A u \in Entries : PastCount(u) => result[u] # NoResult
       /\ BarrierReturned => completed = Total

C13_CounterStep ==
  /\ completed' >= completed
  /\ completed' <= completed + 1
  /\ completed' = completed + 1 =>
       \E u \in Entries :
         /\ upc[u] = "built" /\ upc'[u] = "counted"
         /\ \A v \in Entries \ {u} : upc'[v] = upc[v]
  /\ \A u \in Entries : (PastCount(u) /\ ~PastCount(u)') => FALSE

C13_CompletionCounter == []C13_CounterValue /\ [][C13_CounterStep]_vars

C13_Witness ==
  /\ prog = "par1" /\ mpc = "wait"
  /\ completed = 1
  /\ \E u, v \in Entries : upc[u] = "counted" /\ upc[v] = "running"

\* C14: in the parallel programs barrier, close and aggregation come in this
\* order.  The channel is closed only with the barrier passed, the wait
\* group at zero and every launched unit finished; no send ever meets the
\* closed channel (the process never dies of that panic); main receives
\* nothing while the channel is open; and the read loop is left only with
\* the channel closed and empty and every outcome consumed.
Received == IF prog = "par1" THEN Len(SumLines) ELSE Len(scriptResults)

C14_BarrierCloseAggregate ==
  Parallel =>
    /\ exitStatus # 2
    /\ closed =>
         /\ BarrierReturned /\ mpc # "close"
         /\ wg = 0
         /\ \A u \in Range(launched) : upc[u] = "done"
         /\ launched = Resolved
    /\ ~closed => (Received = 0 /\ mpc \notin {"collect", "aggregate", "report", "done"})
    /\ (prog = "par1" /\ mpc = "aggregate") => Received + Len(results) = Len(launched)
    /\ (prog = "par2" /\ mpc = "collect") => Received + Len(results) = Len(launched)
    /\ (mpc \in {"report", "done"} \/ (prog = "par2" /\ mpc = "aggregate")) =>
         /\ closed
         /\ results = <<>>
         /\ Received = Len(launched)

C14_Witness ==
  /\ prog = "par2" /\ mpc = "collect" /\ closed
  /\ Len(results) = 1 /\ Len(scriptResults) = 1

\* C15: in the sequential program at most one child process is in flight,
\* and at most one task is anywhere between its call and its return: a task
\* is started only when the task before it has terminated, returned and has
\* its outcome in the list.
InFlight == {u \in Entries : upc[u] = "running"}
Active == {u \in Entries : upc[u] \notin {"none", "done"}}

C15_OneInFlight ==
  prog = "seq" =>
    /\ Cardinality(InFlight) <= 1
    /\ Cardinality(Active) <= 1
    /\ Active # {} => mpc = "call"
    /\ \A k \in 1..(Len(validScripts) - 1) :
         upc[validScripts[k + 1]] # "none" =>
           /\ upc[validScripts[k]] = "done"
           /\ Len(scriptResults) >= k
           /\ scriptResults[k] = result[validScripts[k]]

C15_Witness ==
  /\ prog = "seq" /\ Len(validScripts) = 2
  /\ upc[validScripts[1]] = "done"
  /\ upc[validScripts[2]] = "running"

\* C16: the parallel programs put no cap on concurrency.  One unit is
\* launched per resolved entry; the launch loop of main never waits; a unit
\* that was started can start its child whatever the other units are doing;
\* hence all units can have their child in flight together (C16_Witness).
C16_NoConcurrencyCap ==
  Parallel =>
    /\ (Running /\ mpc = "launch") => ENABLED (Par1Launch \/ Par2Launch)
    /\ \A u \in Entries :
         (Running /\ upc[u] = "ready") => ENABLED UnitLaunch(u)
    /\ mpc \notin {"banner", "count", "resolve", "launch"} =>
         /\ launched = Resolved
         /\ \A e \in Range(Resolved) : upc[e] # "none"
         /\ wg = Cardinality({u \in Entries : upc[u] \notin {"none", "done"}})

C16_Witness ==
  /\ prog = "par1" /\ Len(Resolved) = 2
  /\ \A u \in Range(Resolved) : upc[u] = "running"

\* C17: there is no timeout and no cancellation.  As long as a child is in
\* flight the process runs, no summary is written and no exit status set; in
\* the sequential program main sits in the call and no later task has been
\* started; in the parallel programs wg.Wait has not returned and the
\* channel is open, while every other unit can still publish.  The only way
\* a unit leaves the wait for its child is the child's own termination.  So
\* a child that never terminates holds all of this forever.
C17_WhileInFlight ==
  \A u \in Entries :
    upc[u] = "running" =>
      /\ Running
      /\ ~Aggregating /\ ~closed
      /\ SumLines = <<>>
      /\ prog = "seq" =>
           /\ mpc = "call" /\ validScripts[i] = u
           /\ \A k \in (i + 1)..Len(validScripts) : upc[validScripts[k]] = "none"
      /\ Parallel =>
           /\ ~BarrierReturned
           /\ wg >= 1
           /\ \A v \in Entries \ {u} :
                upc[v] \in {"ready", "built", "counted", "logged", "sent"}
                  => ENABLED Unit(v)

C17_OnlyExit ==
  \A u \in Entries :
    (upc[u] = "running" /\ upc'[u] # "running") =>
      /\ upc'[u] = "built"
      /\ result'[u].Error \in {NilErr, ExitErr}
      /\ exitStatus' = exitStatus

C17_NoTimeout == []C17_WhileInFlight /\ [][C17_OnlyExit]_vars

C17_Witness ==
  /\ prog = "par1" /\ mpc = "wait"
  /\ \E u, v \in Entries :
       /\ upc[u] = "running" /\ upc[v] = "done"
       /\ Len(results) = 1 /\ results[1] = result[v]

----------------------------------------------------------------------------
\* The failed outcomes in the order main will list them: those already in
\* failedScripts, then the failed ones main has yet to go through.
IsFailure(o) == ~o.Success
IsPrefix(p, q) == Len(p) <= Len(q) /\ \A k \in DOMAIN p : p[k] = q[k]

Untallied ==
  CASE prog = "par1" -> results
    [] mpc \in {"report", "done"} -> <<>>
    [] mpc = "aggregate" -> SubSeq(scriptResults, i, Len(scriptResults))
    [] OTHER -> scriptResults \o results

FailedOrder == failedScripts \o SelectSeq(Untallied, IsFailure)

\* C18 as claimed: the failed list is in catalog order in the sequential
\* program and, in "par1", in the order of the completion indices the units
\* got from the counter.
C18_OrderByCompletionIndex ==
  /\ prog = "seq" =>
       \A j, k \in DOMAIN failedScripts :
         j < k => failedScripts[j].Name < failedScripts[k].Name
  /\ prog = "par1" =>
       \A j, k \in DOMAIN failedScripts :
         j < k => completedCount[failedScripts[j].Name]
                    < completedCount[failedScripts[k].Name]

\* C18 as amended: the failed list is in the order in which the outcomes
\* were handed over, that is sent on the channel (parallel) or returned to
\* main (sequential, hence catalog order).  The order of hand-over is the
\* order of the channel's content; it is fixed once an outcome is in it, and
\* main lists the failures in that order, each once.
C18_HandOverOrder ==
  /\ prog = "seq" =>
       \A j, k \in DOMAIN FailedOrder :
         j < k => FailedOrder[j].Name < FailedOrder[k].Name
  /\ (Parallel /\ ~closed) => FailedOrder = SelectSeq(results, IsFailure)
  /\ \A j, k \in DOMAIN FailedOrder :
       FailedOrder[j].Name = FailedOrder[k].Name => j = k
  /\ mpc = "done" =>
       /\ FailedOrder = failedScripts
       /\ \A u \in Range(launched) :
            Failed(u) <=> \E k \in DOMAIN failedScripts : failedScripts[k] = result[u]

C18_OrderKept == IsPrefix(FailedOrder, FailedOrder')

C18_FailedListOrder == []C18_HandOverOrder /\ [][C18_OrderKept]_vars

C18_Witness ==
  /\ prog = "par1" /\ mpc = "done"
  /\ Len(failedScripts) = 2
  /\ completedCount[failedScripts[1].Name] > completedCount[failedScripts[2].Name]

\* C19: in the sequential program the k-th resolved task (k = index + 1)
\* shows progress k/N on its start line and the same k/N on its completion
\* line, N being the number of resolved entries, not the catalog size; the
\* last task shows N/N.
C19_SequentialProgress ==
  prog = "seq" =>
    LET ev == SelectSeq(out[MainG], IsTaskLine)
        n == Len(Resolved)
    IN /\ \A k \in DOMAIN ev :
            /\ ev[k].a = (k + 1) \div 2
            /\ ev[k].b = n
            /\ ev[k].a >= 1 /\ ev[k].a <= n
            /\ Resolved[ev[k].a] = ev[k].name
            /\ (k % 2 = 0) => (ev[k].a = ev[k - 1].a /\ ev[k].name = ev[k - 1].name)
       /\ (Aggregating /\ n > 0) =>
            /\ Len(ev) = 2 * n
            /\ ev[Len(ev)].a = n /\ ev[Len(ev)].b = n

C19_Witness ==
  /\ prog = "seq" /\ mpc = "done"
  /\ Len(pythonScripts) = 2 /\ ~exists[1] /\ exists[2]
  /\ LET ev == SelectSeq(out[MainG], IsTaskLine)
     IN Len(ev) = 2 /\ ev[2].a = 1 /\ ev[2].b = 1 /\ ev[2].name = 2

\* C20: in "par1" the completion indices the units obtain from the atomic
\* increment are pairwise distinct and are the values 1..k for the k units
\* that have incremented, hence 1..N in the end; each unit logs its own
\* index with the total N, so no line shows 0 or more than N and exactly one
\* unit logs N/N.
IsEndLine(l) == l.kind \in {"ok", "fail"}
EndLines(u) == SelectSeq(out[u], IsEndLine)
Counted == {u \in Entries : PastCount(u)}

C20_DistinctIndices ==
  prog = "par1" =>
    /\ \A u, v \in Counted : completedCount[u] = completedCount[v] => u = v
    /\ {completedCount[u] : u \in Counted} = 1..completed
    /\ \A u \in Entries :
         /\ Len(EndLines(u)) = IF upc[u] \in {"logged", "sent", "done"} THEN 1 ELSE 0
         /\ \A k \in DOMAIN EndLines(u) :
              /\ EndLines(u)[k].a = completedCount[u]
              /\ EndLines(u)[k].b = Len(Resolved)
              /\ EndLines(u)[k].a >= 1 /\ EndLines(u)[k].a <= Len(Resolved)
    /\ BarrierReturned =>
         /\ {completedCount[u] : u \in Range(launched)} = 1..Len(launched)
         /\ Len(launched) > 0 =>
              Cardinality({u \in Entries : \E k \in DOMAIN EndLines(u) :
                             EndLines(u)[k].a = EndLines(u)[k].b}) = 1

C20_Witness ==
  /\ prog = "par1" /\ mpc = "done"
  /\ Len(launched) = 2
  /\ completedCount[1] = 2 /\ completedCount[2] = 1
  /\ EndLines(1)[1].a = 2 /\ EndLines(1)[1].b = 2

====
